---- MODULE Spec2Model ----
(***************************************************************************)
(* A model of smartrssparser (src/smartrssparser/smartrssparser.py): the   *)
(* SmartFeedParserDict record, its synthesized fields, the delta filter    *)
(* smart_new_story_filter, the favicon resolver, the longest-element       *)
(* functions, smart_url_protocol_guesser and make_smart_object.            *)
(*                                                                         *)
(* Python values are tagged records, so that values of different Python    *)
(* types can be compared: a str, a unicode, an int, None, a list, a raw    *)
(* dict.  The outcome of a call is either a returned value or the class of *)
(* the exception it raised.                                                *)
(***************************************************************************)
EXTENDS Integers, Sequences, FiniteSets, TLC

VARIABLES
    pc,                      \* position of the caller: "start", "done", "record", ...
    stories_object,          \* smart_new_story_filter: the list of stories passed in
    identifier,              \* smart_new_story_filter: the identifier key
    most_recent_identifier,  \* smart_new_story_filter: the watermark
    filtered,                \* smart_new_story_filter: what the call returned and whether it warned
    feed_dict,               \* SmartFeedParserDict.__feed_dict__: the backing mapping
    special,                 \* the _get_<name> closures create_item set on the instance
    update_time,             \* the instance attribute self.update_time (line 358)
    update_time_format,      \* self.update_time_format
    fuzz_update_time,        \* self.fuzz_update_time
    clock,                   \* time.time(), in whole seconds
    last,                    \* the last operation on the record and its outcome
    url,                     \* smart_get_favicon_url: the url passed in
    response,                \* smart_get_favicon_url: what fetching and parsing the page gives
    favicon,                 \* smart_get_favicon_url: the outcome of the call
    elm_a,                   \* return_longest_element: the first operand
    elm_b,                   \* return_longest_element: the second operand
    complain_arg,            \* return_longest_element: the complain argument
    list_arg,                \* return_longest_list_element: the argument
    longest,                 \* the outcome of the call of either longest-element function
    dirty_url,               \* smart_url_protocol_guesser: the url passed in, as a sequence of pieces
    clean_url,               \* smart_url_protocol_guesser: the url returned
    raw_obj,                 \* make_smart_object: the object passed in
    smart_obj,               \* make_smart_object(raw_obj)
    smart_again              \* make_smart_object(smart_obj)

filter_vars == <<stories_object, identifier, most_recent_identifier, filtered>>
record_vars == <<feed_dict, special, update_time, update_time_format,
                 fuzz_update_time, clock, last>>
favicon_vars == <<url, response, favicon>>
pure_vars == <<elm_a, elm_b, complain_arg, list_arg, longest, dirty_url, clean_url,
               raw_obj, smart_obj, smart_again>>
vars == <<pc, filter_vars, record_vars, favicon_vars, pure_vars>>

-----------------------------------------------------------------------------
(* Python values *)

None == [k |-> "none"]
Str(s) == [k |-> "str", s |-> s]
Unicode(s) == [k |-> "unicode", s |-> s]
IntVal(n) == [k |-> "int", n |-> n]
Bool(b) == [k |-> "bool", b |-> b]
List(xs) == [k |-> "list", xs |-> xs]
Dict(m) == [k |-> "dict", m |-> m]
StructTime(t) == [k |-> "struct_time", t |-> t]
\* A url, as urlparse splits it.
Url(scheme, netloc, path) ==
    [k |-> "url", scheme |-> scheme, netloc |-> netloc, path |-> path]
FileHandle == [k |-> "file"]

\* A mapping with no key, and the mappings with one and two keys.
EmptyMap == <<>>
MapSet(f, key, v) ==
    [n \in DOMAIN f \cup {key} |-> IF n = key THEN v ELSE f[n]]
MapRemove(f, key) == [n \in DOMAIN f \ {key} |-> f[n]]

IsText(v) == v.k \in {"str", "unicode"}
IsNumber(v) == v.k \in {"int", "bool"}
NumberOf(v) == IF v.k = "bool" THEN (IF v.b THEN 1 ELSE 0) ELSE v.n

\* Python 2's == on the values of the model: a str and a unicode of the same
\* (ASCII) text are equal, a bool is the int 1 or 0, and every other value is
\* equal to itself only.
PyEq(a, b) ==
    IF IsText(a) /\ IsText(b) THEN a.s = b.s
    ELSE IF IsNumber(a) /\ IsNumber(b) THEN NumberOf(a) = NumberOf(b)
    ELSE a = b

\* The outcome of a call.
Return(v) == [raised |-> "", value |-> v]
Raise(e) == [raised |-> e, value |-> None]

-----------------------------------------------------------------------------
(* Time: time.strftime, time.strptime and calendar.timegm *)

YearLength == 4      \* seconds in a "year" of the model
DayLength == 2       \* seconds in a "day" of the model

DefaultFormat == "%Y-%m-%dT%H:%M:%SZ"
\* "%Y" keeps the year only; "%D" is formatted by strftime but is a bad
\* directive for strptime, which raises ValueError.
Formats == {DefaultFormat, "%Y", "%D"}

Resolution(fmt) ==
    CASE fmt = "%Y" -> YearLength
      [] fmt = "%D" -> DayLength
      [] OTHER -> 1

\* time.strftime(fmt, t): the str that shows t at the resolution of fmt.
strftime(fmt, t) == [k |-> "timestr", fmt |-> fmt, n |-> t \div Resolution(fmt)]

\* time.strptime raises ValueError for a format it cannot parse.
strptime_fails(fmt) == fmt = "%D"

\* calendar.timegm(time.strptime(s, fmt)): fields the format does not show
\* take their least value.
timegm_strptime(s, fmt) == s.n * Resolution(fmt)

-----------------------------------------------------------------------------
(* SmartFeedParserDict *)

Unset == [k |-> "unset"]

\* An instance: __feed_dict__, the closures set by create_item (each held as
\* the outcome its call produces, see create_item), and the other instance
\* attributes.
Smart(fd, sp, fmt, fuzz, ut) ==
    [k |-> "smart", feed_dict |-> fd, special |-> sp,
     update_time_format |-> fmt, fuzz_update_time |-> fuzz, update_time |-> ut]

\* SmartFeedParserDict(): the defaults of __init__.
NewSmart(fd) == Smart(fd, EmptyMap, DefaultFormat, 1, Unset)

\* The methods _get_<name> that the class itself defines.
ClassGetters == {"link", "source_unescaped_html", "story_content",
                 "update_time", "stories"}

escape_transcode(str_) ==
    IF str_.k = "unicode" THEN Str(str_.s)
    ELSE IF str_.k = "str" THEN Unicode(str_.s)
    ELSE str_

escape(str_) == IF str_.k = "unicode" THEN Str(str_.s) ELSE str_

\* hasattr(self, "_get_%s" % name)
hasattr_special(self, name) ==
    name \in DOMAIN self.special \/ name \in ClassGetters

\* len(self.__dict__): __feed_dict__, update_time_format, fuzz_update_time,
\* the closures and, once set, update_time.
__len__(self) ==
    3 + Cardinality(DOMAIN self.special)
      + (IF self.update_time = Unset THEN 0 ELSE 1)

\* len(v): TypeError for a value that has no length.
PyLen(v) ==
    CASE IsText(v) -> Return(Len(v.s))
      [] v.k = "list" -> Return(Len(v.xs))
      [] v.k = "dict" -> Return(Cardinality(DOMAIN v.m))
      [] v.k = "smart" -> Return(__len__(v))
      [] v.k = "struct_time" -> Return(9)
      [] OTHER -> Raise("TypeError")

return_longest_element_tie_second(elm1, elm2, complain) ==
    LET l1 == PyLen(elm1)
        l2 == PyLen(elm2)
        elm1_bozo == l1.raised = "TypeError"
        elm2_bozo == l2.raised = "TypeError"
    IN  IF elm1_bozo /\ elm2_bozo
        THEN IF PyEq(complain, Bool(TRUE)) THEN Raise("TypeError") ELSE Return(complain)
        ELSE IF elm1_bozo THEN Return(elm2)
        ELSE IF elm2_bozo THEN Return(elm1)
        ELSE IF l1.value > l2.value THEN Return(elm1)
        ELSE Return(elm2)

return_longest_element(elm1, elm2, complain) ==
    LET l1 == PyLen(elm1)
        l2 == PyLen(elm2)
        elm1_bozo == l1.raised = "TypeError"
        elm2_bozo == l2.raised = "TypeError"
    IN  IF elm1_bozo /\ elm2_bozo
        THEN IF PyEq(complain, Bool(TRUE)) THEN Raise("TypeError") ELSE Return(complain)
        ELSE IF elm1_bozo THEN Return(elm2)
        ELSE IF elm2_bozo THEN Return(elm1)
        ELSE IF l1.value > l2.value THEN Return(elm1)
        ELSE IF l1.value < l2.value THEN Return(elm2)
        ELSE Return(elm1)

\* The loop of return_longest_list_element from index ii on (indices from 1
\* here, from 0 in the code): an element takes over only when it is strictly
\* longer than the longest seen so far.
RECURSIVE longest_scan_last(_, _, _, _)
longest_scan_last(xs, ii, index, element) ==
    IF ii > Len(xs) THEN index
    ELSE IF PyLen(xs[ii]).value >= element
    THEN longest_scan_last(xs, ii + 1, ii, PyLen(xs[ii]).value)
    ELSE longest_scan_last(xs, ii + 1, index, element)

RECURSIVE longest_scan(_, _, _, _)
longest_scan(xs, ii, index, element) ==
    IF ii > Len(xs) THEN index
    ELSE IF PyLen(xs[ii]).value > element
    THEN longest_scan(xs, ii + 1, ii, PyLen(xs[ii]).value)
    ELSE longest_scan(xs, ii + 1, index, element)

\* longest_index when the loop ends, having started at the first element
\* with a longest length of 0.
longest_index(xs) == longest_scan(xs, 1, 1, 0)

return_longest_list_element(list_) ==
    IF list_.k # "list" THEN Raise("TypeError")
    ELSE IF \E i \in 1..Len(list_.xs) : PyLen(list_.xs[i]).raised # ""
    THEN Raise("TypeError")
    ELSE IF Len(list_.xs) = 0 THEN Raise("IndexError")
    ELSE Return(list_.xs[longest_index(list_.xs)])

RECURSIVE make_smart_object(_)
make_smart_object(obj_) ==
    CASE obj_.k = "smart" -> obj_
      [] obj_.k = "dict" ->
            NewSmart([key \in DOMAIN obj_.m |-> make_smart_object(obj_.m[key])])
      [] obj_.k = "list" ->
            List([ii \in 1..Len(obj_.xs) |-> make_smart_object(obj_.xs[ii])])
      [] OTHER -> escape(obj_)

RECURSIVE __getitem__(_, _, _)

\* self.get(name, default): only KeyError is caught.
get(self, name, default, env) ==
    LET r == __getitem__(self, name, env)
    IN  IF r.raised = "KeyError" THEN Return(default) ELSE r

\* key in self: only KeyError is caught.
__contains__(self, key, env) ==
    LET r == __getitem__(self, key, env)
    IN  IF r.raised = "KeyError" THEN Return(FALSE)
        ELSE IF r.raised = "" THEN Return(TRUE)
        ELSE r

IsMapping(v) == v.k \in {"dict", "smart"}

\* key in m, for m a raw dict or a SmartFeedParserDict.
MapContains(m, key, env) ==
    IF m.k = "dict" THEN Return(key \in DOMAIN m.m)
    ELSE __contains__(m, key, env)

\* m[key], for m a raw dict or a SmartFeedParserDict.
MapGet(m, key, env) ==
    IF m.k = "dict"
    THEN IF key \in DOMAIN m.m THEN Return(m.m[key]) ELSE Raise("KeyError")
    ELSE __getitem__(m, key, env)

\* One pass of a loop of _get_link over one entry: the loop goes on to the
\* next entry (skip) or ends with an outcome.
Skip == [step |-> "skip"]
Stop(out) == [step |-> "stop", out |-> out]

\* if "type" in link and link["type"] == "text/html" and "href" in link:
\*     return link["href"]
html_link_step(link, env) ==
    IF ~IsMapping(link) THEN Stop(Raise("TypeError"))
    ELSE LET has_type == MapContains(link, "type", env)
             type_ == MapGet(link, "type", env)
             has_href == MapContains(link, "href", env)
         IN  IF has_type.raised # "" THEN Stop(has_type)
             ELSE IF ~has_type.value THEN Skip
             ELSE IF type_.raised # "" THEN Stop(type_)
             ELSE IF ~PyEq(type_.value, Str("text/html")) THEN Skip
             ELSE IF has_href.raised # "" THEN Stop(has_href)
             ELSE IF ~has_href.value THEN Skip
             ELSE Stop(MapGet(link, "href", env))

\* if "href" in link: return link["href"]
any_link_step(link, env) ==
    IF ~IsMapping(link) THEN Stop(Raise("TypeError"))
    ELSE LET has_href == MapContains(link, "href", env)
         IN  IF has_href.raised # "" THEN Stop(has_href)
             ELSE IF ~has_href.value THEN Skip
             ELSE Stop(MapGet(link, "href", env))

\* The outcome of the first entry, in list order, that ends the loop.
FirstStop(steps) ==
    LET i == CHOOSE i \in 1..Len(steps) :
                /\ steps[i] # Skip
                /\ \A j \in 1..(i - 1) : steps[j] = Skip
    IN  steps[i].out

\* _get_link without its first loop: the first entry that has an href.
get_link_any_href(self, env) ==
    LET links == get(self, "links", List(<<>>), env)
        xs == links.value.xs
        second == [i \in 1..Len(xs) |-> any_link_step(xs[i], env)]
    IN  IF links.raised # "" THEN links
        ELSE IF IsText(links.value) THEN Return(Str(""))
        ELSE IF links.value.k = "smart" THEN Raise("KeyError")
        ELSE IF links.value.k # "list" THEN Raise("TypeError")
        ELSE IF \E i \in 1..Len(xs) : second[i] # Skip THEN FirstStop(second)
        ELSE Return(Str(""))

\* The entries of a list of links are mappings; a str of links has
\* one-character entries, in which neither "type" nor "href" is found; a
\* SmartFeedParserDict is iterated by self[0], which raises KeyError; an int
\* or None is not iterable.
_get_link(self, env) ==
    LET links == get(self, "links", List(<<>>), env)
        xs == links.value.xs
        first == [i \in 1..Len(xs) |-> html_link_step(xs[i], env)]
        second == [i \in 1..Len(xs) |-> any_link_step(xs[i], env)]
    IN  IF links.raised # "" THEN links
        ELSE IF IsText(links.value) THEN Return(Str(""))
        ELSE IF links.value.k = "smart" THEN Raise("KeyError")
        ELSE IF links.value.k # "list" THEN Raise("TypeError")
        ELSE IF \E i \in 1..Len(xs) : first[i] # Skip THEN FirstStop(first)
        ELSE IF \E i \in 1..Len(xs) : second[i] # Skip THEN FirstStop(second)
        ELSE Return(Str(""))

\* urllib.urlopen(urllib2.Request(url)): env.fetch is what the library does,
\* an AttributeError being turned into KeyError.  The url is a str, or
\* url.strip() raises AttributeError outside the try.
_get_source_unescaped_html(self, env) ==
    LET link == __getitem__(self, "link", env)
    IN  IF link.raised # "" THEN link
        ELSE IF ~IsText(link.value) THEN Raise("AttributeError")
        ELSE CASE env.fetch = "ok" -> Return(FileHandle)
               [] env.fetch = "AttributeError" -> Raise("KeyError")
               [] OTHER -> Raise(env.fetch)

\* value[0]["value"]
first_value(value, env) ==
    IF Len(value.xs) = 0 THEN Raise("IndexError")
    ELSE IF ~IsMapping(value.xs[1]) THEN Raise("TypeError")
    ELSE MapGet(value.xs[1], "value", env)

_get_story_content(self, env) ==
    LET content == get(self, "content", Str(""), env)
        description == get(self, "description", Str(""), env)
        summary == get(self, "summary", Str(""), env)
        first == return_longest_element(content.value, description.value,
                                        Bool(TRUE))
        longest_elm == return_longest_element(first.value, summary.value,
                                              Bool(TRUE))
    IN  IF content.raised # "" THEN content
        ELSE IF description.raised # "" THEN description
        ELSE IF summary.raised # "" THEN summary
        ELSE IF first.raised # "" THEN first
        ELSE IF longest_elm.raised # "" THEN longest_elm
        ELSE IF longest_elm.value.k = "list"
        THEN first_value(longest_elm.value, env)
        ELSE longest_elm

\* The candidate of _get_update_time before the clamp.
update_time_candidate(self, env) ==
    IF "updated_parsed" \in DOMAIN self.feed_dict
       /\ self.feed_dict["updated_parsed"].k = "struct_time"
    THEN strftime(self.update_time_format, self.feed_dict["updated_parsed"].t)
    ELSE strftime(self.update_time_format, env.now + env.fuzz)

\* _get_update_time without the clamp of lines 347-354.
update_time_unclamped(self, env) == update_time_candidate(self, env)

computed_update_time(self, env) ==
    LET update_time_ == update_time_candidate(self, env)
        elm_epoch_time ==
            IF strptime_fails(self.update_time_format)
            THEN env.now + 5
            ELSE timegm_strptime(update_time_, self.update_time_format)
    IN  IF elm_epoch_time > env.now
        THEN strftime(self.update_time_format, env.now)
        ELSE update_time_

_get_update_time(self, env) ==
    IF "update_time" \in DOMAIN self.feed_dict
    THEN Return(self.feed_dict["update_time"])
    ELSE Return(computed_update_time(self, env))

\* for raw_story in raw_stories: the elements of a list; the characters of a
\* str; the keys of a raw dict; the fields of a struct_time; and for a
\* SmartFeedParserDict the old iteration protocol asks for self[0], which
\* raises KeyError.
CharAt(s, i) == [k |-> "char", of |-> s, i |-> i]
FieldAt(t, i) == [k |-> "field", of |-> t, i |-> i]

RECURSIVE KeysInOrder(_)
KeysInOrder(ks) ==
    IF ks = {} THEN <<>>
    ELSE LET key == CHOOSE key \in ks : TRUE
         IN  <<Str(key)>> \o KeysInOrder(ks \ {key})

Iterate(v) ==
    CASE v.k = "list" -> Return(v.xs)
      [] IsText(v) -> Return([i \in 1..Len(v.s) |-> CharAt(v.s, i)])
      [] v.k = "dict" -> Return(KeysInOrder(DOMAIN v.m))
      [] v.k = "struct_time" -> Return([i \in 1..9 |-> FieldAt(v.t, i)])
      [] v.k = "smart" -> Raise("KeyError")
      [] OTHER -> Raise("TypeError")

_get_stories(self, env) ==
    LET items == get(self, "items", List(<<>>), env)
        entries == get(self, "entries", List(<<>>), env)
        content == get(self, "content", List(<<>>), env)
        raw_stories == return_longest_list_element(
                           List(<<items.value, entries.value, content.value>>))
        stories == Iterate(raw_stories.value)
    IN  IF items.raised # "" THEN items
        ELSE IF entries.raised # "" THEN entries
        ELSE IF content.raised # "" THEN content
        ELSE IF raw_stories.raised # "" THEN raw_stories
        ELSE IF stories.raised # "" THEN stories
        ELSE Return(List([i \in 1..Len(stories.value) |->
                             make_smart_object(stories.value[i])]))

\* getattr(self, "_get_%s" % name)() for a method of the class.
class_getter(self, name, env) ==
    CASE name = "link" -> _get_link(self, env)
      [] name = "source_unescaped_html" -> _get_source_unescaped_html(self, env)
      [] name = "story_content" -> _get_story_content(self, env)
      [] name = "update_time" -> _get_update_time(self, env)
      [] name = "stories" -> _get_stories(self, env)

\* __getitem__ with the backing mapping looked up before the closures.
getitem_backing_first(self, name, env) ==
    LET result ==
            IF name \in DOMAIN self.feed_dict
            THEN Return(self.feed_dict[name])
            ELSE IF name \in DOMAIN self.special THEN self.special[name]
            ELSE IF name \in ClassGetters THEN class_getter(self, name, env)
            ELSE Raise("KeyError")
    IN  IF result.raised = "" THEN Return(escape(result.value)) ELSE result

\* __getitem__: a closure set on the instance comes first, then the method
\* of the class, then the backing mapping.
__getitem__(self, name, env) ==
    LET result ==
            IF hasattr_special(self, name)
            THEN IF name \in DOMAIN self.special THEN self.special[name]
                 ELSE class_getter(self, name, env)
            ELSE IF name \in DOMAIN self.feed_dict
            THEN Return(self.feed_dict[name])
            ELSE Raise("KeyError")
    IN  IF result.raised = "" THEN Return(escape(result.value)) ELSE result

\* del self[name]: the instance after the statement, and its outcome.  The
\* closure of the instance is deleted if there is one; delattr raises
\* AttributeError when only the class has the method.
__delitem__(self, name) ==
    IF hasattr_special(self, name)
    THEN IF name \in DOMAIN self.special
         THEN [self |-> [self EXCEPT !.special = MapRemove(self.special, name)],
               out |-> Return(None)]
         ELSE [self |-> self, out |-> Raise("AttributeError")]
    ELSE IF name \in DOMAIN self.feed_dict
    THEN [self |-> [self EXCEPT !.feed_dict = MapRemove(self.feed_dict, name)],
          out |-> Return(None)]
    ELSE [self |-> self, out |-> Raise("KeyError")]

\* safe_delete: only KeyError is caught.
safe_delete(self, name) ==
    LET r == __delitem__(self, name)
    IN  IF r.out.raised = "KeyError" THEN [self |-> r.self, out |-> Return(None)]
        ELSE r

\* for elm in update_dict.keys(): self.safe_delete(elm), the keys taken in
\* the order the dict gives them.
RECURSIVE delete_keys(_, _)
delete_keys(self, keys) ==
    IF keys = <<>> THEN [self |-> self, out |-> Return(None)]
    ELSE LET r == safe_delete(self, Head(keys))
         IN  IF r.out.raised # "" THEN r
             ELSE delete_keys(r.self, Tail(keys))

update(self, update_dict, keys) ==
    LET r == delete_keys(self, keys)
    IN  IF r.out.raised # "" THEN r
        ELSE [self |-> [r.self EXCEPT !.feed_dict =
                           [n \in DOMAIN r.self.feed_dict \cup DOMAIN update_dict |->
                               IF n \in DOMAIN update_dict THEN update_dict[n]
                               ELSE r.self.feed_dict[n]]],
              out |-> Return(None)]

\* The functions handed to create_item: lambda v_: <value>, and
\* lambda v_: v_[<key>] for a key that is read without the clock, the random
\* numbers or the network.
Const(v) == [f |-> "const", v |-> v]
Read(key) == [f |-> "read", key |-> key]

\* closure(): func(self_), self_ being the deep copy of the instance taken by
\* create_item.  The copy is private to the closure and func only reads it,
\* so every call of the closure has the one outcome that is computed here.
closure(func, self_, env) ==
    IF func.f = "const" THEN Return(func.v)
    ELSE __getitem__(self_, func.key, env)

create_item(self, name, func, env) ==
    [self EXCEPT !.special = MapSet(self.special, name,
                                    closure(func, self, env))]

\* __setitem__
__setitem__(self, name, value) ==
    [self EXCEPT !.feed_dict = MapSet(self.feed_dict, name, value)]

\* The instance attribute update_time after self[name]: _get_update_time
\* stores what it computed (line 358).
update_time_after(self, name, env) ==
    IF name = "update_time" /\ name \notin DOMAIN self.special
       /\ "update_time" \notin DOMAIN self.feed_dict
    THEN computed_update_time(self, env)
    ELSE self.update_time

-----------------------------------------------------------------------------
(* The record as a state machine *)

MaxFuzz == 1
StartClock == 6
MaxClock == 8

\* The fetch gives a handle, or raises the AttributeError that the code
\* expects of it.
FetchOutcomes == {"ok", "AttributeError"}

self == Smart(feed_dict, special, update_time_format, fuzz_update_time,
              update_time)

\* What a read of self[name] takes from outside: the time, the number that
\* random.randint gives _get_update_time, what the fetch of
\* _get_source_unescaped_html does.
Envs(name) ==
    [now : {clock},
     fuzz : IF name = "update_time"
            THEN (0 - fuzz_update_time)..fuzz_update_time ELSE {0},
     fetch : IF name = "source_unescaped_html" THEN FetchOutcomes ELSE {"ok"}]

NoEnv == [now |-> 0, fuzz |-> 0, fetch |-> "ok"]
NoOp == [op |-> "", name |-> "", out |-> Return(None), env |-> NoEnv]

Store(self_) ==
    /\ feed_dict' = self_.feed_dict
    /\ special' = self_.special
    /\ update_time' = self_.update_time
    /\ UNCHANGED <<update_time_format, fuzz_update_time>>

GetItem(name) ==
    /\ pc = "record"
    /\ \E env \in Envs(name) :
        /\ last' = [op |-> "getitem", name |-> name, env |-> env,
                    out |-> __getitem__(self, name, env)]
        /\ Store([self EXCEPT !.update_time = update_time_after(self, name, env)])
    /\ UNCHANGED <<pc, clock, filter_vars, favicon_vars, pure_vars>>

Get(name, default) ==
    /\ pc = "record"
    /\ \E env \in Envs(name) :
        /\ last' = [op |-> "get", name |-> name, env |-> env,
                    out |-> get(self, name, default, env)]
        /\ Store([self EXCEPT !.update_time = update_time_after(self, name, env)])
    /\ UNCHANGED <<pc, clock, filter_vars, favicon_vars, pure_vars>>

Contains(name) ==
    /\ pc = "record"
    /\ \E env \in Envs(name) :
        /\ last' = [op |-> "contains", name |-> name, env |-> env,
                    out |-> __contains__(self, name, env)]
        /\ Store([self EXCEPT !.update_time = update_time_after(self, name, env)])
    /\ UNCHANGED <<pc, clock, filter_vars, favicon_vars, pure_vars>>

SetItem(name, value) ==
    /\ pc = "record"
    /\ last' = [op |-> "setitem", name |-> name, out |-> Return(None),
                env |-> NoEnv]
    /\ Store(__setitem__(self, name, value))
    /\ UNCHANGED <<pc, clock, filter_vars, favicon_vars, pure_vars>>

DelItem(name) ==
    /\ pc = "record"
    /\ last' = [op |-> "delitem", name |-> name,
                out |-> __delitem__(self, name).out, env |-> NoEnv]
    /\ Store(__delitem__(self, name).self)
    /\ UNCHANGED <<pc, clock, filter_vars, favicon_vars, pure_vars>>

SafeDelete(name) ==
    /\ pc = "record"
    /\ last' = [op |-> "safe_delete", name |-> name,
                out |-> safe_delete(self, name).out, env |-> NoEnv]
    /\ Store(safe_delete(self, name).self)
    /\ UNCHANGED <<pc, clock, filter_vars, favicon_vars, pure_vars>>

\* The orders in which a dict can give its keys.
KeyOrders(ks) ==
    {order \in [1..Cardinality(ks) -> ks] :
        \A i, j \in 1..Cardinality(ks) : i # j => order[i] # order[j]}

Update(update_dict) ==
    /\ pc = "record"
    /\ \E keys \in KeyOrders(DOMAIN update_dict) :
        /\ last' = [op |-> "update", name |-> "", update_dict |-> update_dict,
                    out |-> update(self, update_dict, keys).out, env |-> NoEnv]
        /\ Store(update(self, update_dict, keys).self)
    /\ UNCHANGED <<pc, clock, filter_vars, favicon_vars, pure_vars>>

CreateItem(name, func) ==
    /\ pc = "record"
    /\ \E env \in Envs("") :
        /\ last' = [op |-> "create_item", name |-> name, out |-> Return(None),
                    env |-> NoEnv]
        /\ Store(create_item(self, name, func, env))
    /\ UNCHANGED <<pc, clock, filter_vars, favicon_vars, pure_vars>>

\* Time passes between two calls.
Tick ==
    /\ pc = "record"
    /\ clock < MaxClock
    /\ clock' = clock + 1
    /\ UNCHANGED <<pc, feed_dict, special, update_time, update_time_format,
                   fuzz_update_time, last, filter_vars, favicon_vars, pure_vars>>

\* The variables of the record while another function is looked at.
RecordIdle ==
    /\ feed_dict = EmptyMap
    /\ special = EmptyMap
    /\ update_time = Unset
    /\ update_time_format = DefaultFormat
    /\ fuzz_update_time = 1
    /\ clock = StartClock
    /\ last = NoOp

FaviconIdle ==
    /\ url = Url("http", "example.com", "")
    /\ response = Return(<<>>)
    /\ favicon = Return(None)

FilterIdle ==
    /\ stories_object = <<>>
    /\ identifier = "title"
    /\ most_recent_identifier = Str("")
    /\ filtered = [value |-> <<>>, warned |-> FALSE]

\* The variables of the functions that stand alone while another part of the
\* module is looked at.
PureIdle ==
    /\ elm_a = None
    /\ elm_b = None
    /\ complain_arg = Bool(TRUE)
    /\ list_arg = List(<<>>)
    /\ longest = Return(None)
    /\ dirty_url = <<>>
    /\ clean_url = <<>>
    /\ raw_obj = None
    /\ smart_obj = None
    /\ smart_again = None

-----------------------------------------------------------------------------
(* A record that is read, written, deleted from and extended *)

\* What the constructor is given: nothing, or a raw parse result.
RawResults == {EmptyMap,
               [foo |-> Dict([c |-> Unicode("C")])],
               [foo |-> Unicode("bar"), content |-> List(<<>>)]}

ReadNames == {"foo", "link", "content", "stories", "story_content",
              "source_unescaped_html"}
DeleteNames == {"foo", "link", "content", "stories", "story_content",
                "update_time"}
SetInputs == {<<"foo", Unicode("bar")>>,
              <<"foo", Dict([c |-> Unicode("C")])>>,
              <<"link", Str("X")>>,
              <<"content", List(<<>>)>>}
UpdateInputs == {[foo |-> Str("B")],
                 [foo |-> Str("B"), content |-> List(<<>>)],
                 [link |-> Str("Y")]}
CreateInputs == {<<"foo", Const(Str("ext"))>>, <<"foo", Read("foo")>>,
                 <<"link", Const(Str("ext"))>>}
Defaults == {Str("a default value")}

InitRecord ==
    /\ pc = "record"
    /\ feed_dict \in RawResults
    /\ special = EmptyMap
    /\ update_time = Unset
    /\ update_time_format = DefaultFormat
    /\ fuzz_update_time = 1
    /\ clock = StartClock
    /\ last = NoOp
    /\ FilterIdle
    /\ FaviconIdle
    /\ PureIdle

NextRecord ==
    \/ \E name \in ReadNames : GetItem(name)
    \/ \E name \in ReadNames, default \in Defaults : Get(name, default)
    \/ \E name \in ReadNames : Contains(name)
    \/ \E input \in SetInputs : SetItem(input[1], input[2])
    \/ \E name \in DeleteNames : DelItem(name)
    \/ \E name \in DeleteNames : SafeDelete(name)
    \/ \E update_dict \in UpdateInputs : Update(update_dict)
    \/ \E input \in CreateInputs : CreateItem(input[1], input[2])

SpecRecord == InitRecord /\ [][NextRecord]_vars

-----------------------------------------------------------------------------
(* Claims about the record *)

Escaped(out) == IF out.raised = "" THEN Return(escape(out.value)) ELSE out

\* The lookup order as the specification words it: the delegate, then the
\* backing mapping, then KeyError.
DelegateThenBacking(name) ==
    IF name \in DOMAIN special THEN Escaped(special[name])
    ELSE IF name \in DOMAIN feed_dict THEN Return(escape(feed_dict[name]))
    ELSE Raise("KeyError")

C4_GetNeverFails ==
    last.op = "get" => last.out.raised = ""

\* name in record, read without the clock and the network.
InRecord(self_, name) ==
    __contains__(self_, name, [now |-> clock, fuzz |-> 0, fetch |-> "ok"]).value = TRUE

\* C5: a delete of a present field that completes leaves the field absent
\* (name in record is false), also when the name has a backing value and a
\* delegate.
C5_DeleteRemoves ==
    [][(/\ last'.op = "delitem"
        /\ last'.out.raised = ""
        /\ InRecord(self, last'.name))
       => ~InRecord(self', last'.name)]_vars

\* C6: safe_delete never raises, for a present, an absent, a delegate-backed
\* and a reserved name.
C6_SafeDeleteNeverRaises ==
    last.op = "safe_delete" => last.out.raised = ""

\* A value through which no raw mapping can be read: not a raw dict, a list
\* of such values, or a SmartFeedParserDict whose fields are such values.
RECURSIVE Normalized(_)
Normalized(v) ==
    CASE v.k = "dict" -> FALSE
      [] v.k = "list" -> \A i \in 1..Len(v.xs) : Normalized(v.xs[i])
      [] v.k = "smart" ->
            \A name \in DOMAIN v.feed_dict \cup DOMAIN v.special :
                LET r == __getitem__(v, name, [now |-> clock, fuzz |-> 0,
                                               fetch |-> "ok"])
                IN  r.raised = "" => Normalized(r.value)
      [] OTHER -> TRUE

\* C7: after the construction of a record and any sequence of set, update
\* and delete, every mapping that can be read through its fields, at any
\* depth and inside any list, is a SmartFeedParserDict.
C7_NoRawMapping == Normalized(self)

-----------------------------------------------------------------------------
(* The update time of a record *)

\* The latest instant an updated_parsed of the model shows.
LatestTime == MaxClock + YearLength + 1

\* What the constructor is given: no updated_parsed, a struct_time of the
\* past or of the future, or an updated_parsed that is no struct_time.
TimedResults ==
    {EmptyMap, [updated_parsed |-> None], [updated_parsed |-> Str("yesterday")]}
    \cup {[updated_parsed |-> StructTime(t)] : t \in 0..LatestTime}

InitTime ==
    /\ pc = "record"
    /\ feed_dict \in TimedResults
    /\ special = EmptyMap
    /\ update_time = Unset
    /\ update_time_format \in Formats
    /\ fuzz_update_time \in 1..MaxFuzz
    /\ clock = StartClock
    /\ last = NoOp
    /\ FilterIdle
    /\ FaviconIdle
    /\ PureIdle

NextTime ==
    \/ GetItem("update_time")
    \/ \E default \in Defaults : Get("update_time", default)
    \/ Tick

SpecTime == InitTime /\ [][NextTime]_vars

\* The last operation read update_time through _get_update_time, and the
\* backing mapping has no literal update_time.
ReadUpdateTime ==
    /\ last.op \in {"getitem", "get"}
    /\ last.name = "update_time"
    /\ "update_time" \notin DOMAIN special
    /\ "update_time" \notin DOMAIN feed_dict

\* The instant the record would show without the clamp: updated_parsed, or
\* the time of the call plus the jitter.
ClaimedInstant ==
    IF "updated_parsed" \in DOMAIN feed_dict
       /\ feed_dict["updated_parsed"].k = "struct_time"
    THEN feed_dict["updated_parsed"].t
    ELSE last.env.now + last.env.fuzz

\* C8: without a literal update_time, the update_time produced never shows
\* an instant later than the time of the call; a future updated_parsed, a
\* positive jitter and a candidate that cannot be parsed back all give the
\* time of the call in the format of the record.
C8_UpdateTimeClamp ==
    ReadUpdateTime =>
        /\ last.out.raised = ""
        /\ ~strptime_fails(update_time_format) =>
                timegm_strptime(last.out.value, update_time_format) <= last.env.now
        /\ (ClaimedInstant > last.env.now \/ strptime_fails(update_time_format)) =>
                last.out.value = strftime(update_time_format, last.env.now)

\* A read of update_time on a record whose updated_parsed is in the future.
C8_Witness ==
    /\ ReadUpdateTime
    /\ update_time_format = DefaultFormat
    /\ "updated_parsed" \in DOMAIN feed_dict
    /\ feed_dict["updated_parsed"] = StructTime(LatestTime)
    /\ last.out = Return(strftime(DefaultFormat, last.env.now))

-----------------------------------------------------------------------------
(* The link of a record *)

MaxLinks == 2

\* An entry of links: a mapping with or without a type and an href.
LinkTypes == {Unicode("text/html"), Unicode("image/png")}
Hrefs == {Unicode("A"), Unicode("B")}
LinkEntries ==
    {Dict(EmptyMap)}
    \cup {Dict([type |-> t]) : t \in LinkTypes}
    \cup {Dict([href |-> h]) : h \in Hrefs}
    \cup {Dict([type |-> t, href |-> h]) : t \in LinkTypes, h \in Hrefs}
LinkLists == UNION {[1..n -> LinkEntries] : n \in 0..MaxLinks}

\* A raw parse result without links or with a list of links, given to the
\* constructor as it is or converted by make_smart_object (smart_parse).
LinkResults == {EmptyMap} \cup {[links |-> List(xs)] : xs \in LinkLists}

InitLink ==
    /\ pc = "record"
    /\ \E raw \in LinkResults :
          feed_dict \in {raw, make_smart_object(Dict(raw)).feed_dict}
    /\ special = EmptyMap
    /\ update_time = Unset
    /\ update_time_format = DefaultFormat
    /\ fuzz_update_time = 1
    /\ clock = StartClock
    /\ last = NoOp
    /\ FilterIdle
    /\ FaviconIdle
    /\ PureIdle

NextLink ==
    \/ \E name \in {"link", "links"} : GetItem(name)
    \/ \E default \in Defaults : Get("link", default)
    \/ DelItem("links")

SpecLink == InitLink /\ [][NextLink]_vars

\* The links of the record, and what an entry holds under a key.
LinksOfRecord ==
    IF "links" \in DOMAIN feed_dict THEN feed_dict["links"].xs ELSE <<>>
EntryFields(e) == IF e.k = "dict" THEN e.m ELSE e.feed_dict
HtmlEntries ==
    {i \in 1..Len(LinksOfRecord) :
        /\ "type" \in DOMAIN EntryFields(LinksOfRecord[i])
        /\ EntryFields(LinksOfRecord[i])["type"].s = "text/html"
        /\ "href" \in DOMAIN EntryFields(LinksOfRecord[i])}
HrefEntries ==
    {i \in 1..Len(LinksOfRecord) : "href" \in DOMAIN EntryFields(LinksOfRecord[i])}
First(S) == CHOOSE i \in S : \A j \in S : i <= j
HrefOf(i) == Str(EntryFields(LinksOfRecord[i])["href"].s)

\* C10: the link of a record whose links is an absent, empty or non-empty
\* list of mappings is the href of the first entry of type "text/html" that
\* has an href; without such an entry, the href of the first entry that has
\* one; and the empty string otherwise.  (The getter of the class is read:
\* no delegate is registered for link.)
C10_LinkResolution ==
    (last.op = "getitem" /\ last.name = "link" /\ "link" \notin DOMAIN special) =>
        last.out = Return(IF HtmlEntries # {} THEN HrefOf(First(HtmlEntries))
                          ELSE IF HrefEntries # {} THEN HrefOf(First(HrefEntries))
                          ELSE Str(""))

\* The link of a record whose second entry is the first of type text/html.
C10_Witness ==
    /\ last.op = "getitem"
    /\ last.name = "link"
    /\ Len(LinksOfRecord) = 2
    /\ HrefEntries = {1, 2}
    /\ HtmlEntries = {2}
    /\ HrefOf(1) # HrefOf(2)
    /\ last.out = Return(HrefOf(2))

-----------------------------------------------------------------------------
(* smart_get_favicon_url *)

MaxTags == 2

\* The base classes of the exceptions of Python 2.
Bases(e) ==
    CASE e = "UnicodeDecodeError" -> {"UnicodeError"}
      [] e = "UnicodeError" -> {"ValueError"}
      [] e = "ValueError" -> {"StandardError"}
      [] e = "HTTPError" -> {"URLError"}
      [] e = "URLError" -> {"IOError"}
      [] e = "socket.timeout" -> {"socket.error"}
      [] e = "socket.error" -> {"IOError"}
      [] e = "IOError" -> {"EnvironmentError"}
      [] e = "EnvironmentError" -> {"StandardError"}
      [] e = "IncompleteRead" -> {"HTTPException"}
      [] e = "BadStatusLine" -> {"HTTPException"}
      [] e = "HTTPException" -> {"Exception"}
      [] e = "StandardError" -> {"Exception"}
      [] OTHER -> {}

RECURSIVE IsInstance(_, _)
IsInstance(e, class) ==
    e = class \/ \E base \in Bases(e) : IsInstance(base, class)

\* except (c1, c2, ...): the clause takes an exception of any of the classes.
Catches(classes, e) == \E class \in classes : IsInstance(e, class)

icon_list == {"apple-touch-icon", "shortcut icon", "icon"}

\* parsed_story_url[0] + "://" + parsed_story_url[1] + "/favicon.ico"
DumbestGuess(url_) == Url(url_.scheme, url_.netloc, "/favicon.ico")

\* urljoin(url, href): an href with a scheme stands for itself, a path is
\* taken on the host of url.
urljoin(url_, href) ==
    IF href.k = "url" THEN href ELSE Url(url_.scheme, url_.netloc, href.s)

\* The link tags that name an icon, in document order.
IconTags(tags) ==
    {i \in 1..Len(tags) :
        /\ "rel" \in DOMAIN tags[i]
        /\ "href" \in DOMAIN tags[i]
        /\ tags[i]["rel"].s \in icon_list}

smart_get_favicon_url(url_, response_) ==
    IF response_.raised # ""
    THEN IF Catches({"ValueError"}, response_.raised) THEN Return(Str(""))
         ELSE IF Catches({"HTTPError", "URLError", "socket.timeout",
                          "IncompleteRead", "BadStatusLine"}, response_.raised)
         THEN Return(DumbestGuess(url_))
         ELSE IF Catches({"UnicodeError"}, response_.raised)
         THEN Return(DumbestGuess(url_))
         ELSE response_
    ELSE IF IconTags(response_.value) # {}
    THEN LET i == CHOOSE i \in IconTags(response_.value) :
                    \A j \in IconTags(response_.value) : i <= j
         IN  Return(urljoin(url_, response_.value[i]["href"]))
    ELSE Return(DumbestGuess(url_))

Urls == {Url(scheme, netloc, path) :
            scheme \in {"http", "https"},
            netloc \in {"example.com", "static.retickr.com"},
            path \in {"", "/testing/html/reddit.html"}}

\* What urlopen, read and BeautifulSoup raise.
FetchFailures == {"socket.timeout", "HTTPError", "URLError", "IncompleteRead",
                  "BadStatusLine", "UnicodeDecodeError", "ValueError",
                  "socket.error"}

\* The link tags of a page: each with or without a rel and an href.
Rels == {Str("icon"), Str("shortcut icon"), Str("apple-touch-icon"),
         Str("stylesheet")}
TagHrefs == {Str("/favicon.png"),
             Url("http", "redditstatic.s3.amazonaws.com", "/favicon.ico")}
LinkTags ==
    {EmptyMap}
    \cup {[rel |-> r] : r \in Rels}
    \cup {[href |-> h] : h \in TagHrefs}
    \cup {[rel |-> r, href |-> h] : r \in Rels, h \in TagHrefs}
Pages == UNION {[1..n -> LinkTags] : n \in 0..MaxTags}

InitFavicon ==
    /\ pc = "start"
    /\ url \in Urls
    /\ response \in {Raise(e) : e \in FetchFailures} \cup {Return(p) : p \in Pages}
    /\ favicon = Return(None)
    /\ FilterIdle
    /\ RecordIdle
    /\ PureIdle

Favicon ==
    /\ pc = "start"
    /\ favicon' = smart_get_favicon_url(url, response)
    /\ pc' = "done"
    /\ UNCHANGED <<url, response, filter_vars, record_vars, pure_vars>>

NextFavicon == Favicon

SpecFavicon == InitFavicon /\ [][NextFavicon]_vars

\* The failures the resolver is to recover from: a timeout, an HTTP error,
\* a URL error, a malformed response, a failure to decode the text.
RecoverableFailures == {"socket.timeout", "HTTPError", "URLError",
                        "IncompleteRead", "BadStatusLine", "UnicodeDecodeError"}

\* C9: for each recoverable failure raised while the page is fetched or
\* parsed, the resolver returns scheme://host/favicon.ico of the url it was
\* given, and the failure does not reach the caller.
C9_FailureGivesFallback ==
    (pc = "done" /\ response.raised \in RecoverableFailures) =>
        favicon = Return(DumbestGuess(url))

-----------------------------------------------------------------------------
(* smart_new_story_filter *)

MaxStories == 3

StoryKeys == {"title"}
IdentifierKeys == {"title", "foo"}
IdentifierValues == {Str("Apple"), Str("Bannanna"), None}
Watermarks == {Str(""), Str("Apple"), Str("Bannanna"), Str("honeydew"), None}

\* A story is a mapping from some of StoryKeys to values.
Stories == UNION {[ks -> IdentifierValues] : ks \in SUBSET StoryKeys}
StoryLists == UNION {[1..n -> Stories] : n \in 0..MaxStories}

\* identifier_list: the story's value under the key, None where the key is missing.
identifier_list(stories, ident) ==
    [i \in 1..Len(stories) |->
        IF ident \in DOMAIN stories[i] THEN stories[i][ident] ELSE None]

all_none(stories, ident) ==
    \A i \in 1..Len(stories) : ident \notin DOMAIN stories[i]

\* list.index: the 0-based index of the first element equal to x.
ListIndex(list, x) ==
    (CHOOSE i \in 1..Len(list) :
        /\ PyEq(list[i], x)
        /\ \A j \in 1..(i - 1) : ~PyEq(list[j], x)) - 1

pivot_identifier_index(stories, ident, mri) ==
    LET ids == identifier_list(stories, ident)
    IN  IF \E i \in 1..Len(ids) : PyEq(ids[i], mri)
        THEN ListIndex(ids, mri)
        ELSE Len(ids)

smart_new_story_filter(stories, ident, mri) ==
    [value |-> SubSeq(stories, 1, pivot_identifier_index(stories, ident, mri)),
     warned |-> all_none(stories, ident)]

NotCalled == [value |-> <<>>, warned |-> FALSE]

InitFilter ==
    /\ pc = "start"
    /\ stories_object \in StoryLists
    /\ identifier \in IdentifierKeys
    /\ most_recent_identifier \in Watermarks
    /\ filtered = NotCalled
    /\ RecordIdle
    /\ FaviconIdle
    /\ PureIdle

Filter ==
    /\ pc = "start"
    /\ filtered' = smart_new_story_filter(stories_object, identifier,
                                          most_recent_identifier)
    /\ pc' = "done"
    /\ UNCHANGED <<stories_object, identifier, most_recent_identifier>>
    /\ UNCHANGED <<record_vars, favicon_vars, pure_vars>>

NextFilter == Filter

SpecFilter == InitFilter /\ [][NextFilter]_vars

-----------------------------------------------------------------------------
(* Claims about the delta filter *)

\* The records of the list whose identifier value equals the watermark.
Matching(stories, ident, mri) ==
    {i \in 1..Len(stories) :
        ident \in DOMAIN stories[i] /\ PyEq(stories[i][ident], mri)}

FirstMatching(stories, ident, mri) ==
    CHOOSE i \in Matching(stories, ident, mri) :
        \A j \in Matching(stories, ident, mri) : i <= j

\* C1: the filter returns exactly the records strictly before the first
\* record whose value under the identifier key equals the watermark, and the
\* entire list, in order, when no record's identifier value equals it.
C1_PrefixBeforeWatermark ==
    pc = "done" =>
        IF Matching(stories_object, identifier, most_recent_identifier) = {}
        THEN filtered.value = stories_object
        ELSE filtered.value =
                SubSeq(stories_object, 1,
                       FirstMatching(stories_object, identifier,
                                     most_recent_identifier) - 1)

\* C2: when every record of the list lacks the identifier key, the filter
\* returns the full list unfiltered, whatever the watermark is.
C2_FailOpen ==
    (pc = "done" /\ all_none(stories_object, identifier)) =>
        filtered.value = stories_object

-----------------------------------------------------------------------------
(* return_longest_element and return_longest_list_element, called alone *)

MaxLen == 2      \* the longest list among the operands
MaxElems == 3    \* the longest list given to return_longest_list_element

\* The list [1, ..., n].
Counting(n) == List([i \in 1..n |-> IntVal(i)])

\* Operands that have a length, and operands len() raises TypeError for.
Sized == {Str(""), Str("a"), Str("b"), Str("ab"), Unicode("ab")}
            \cup {Counting(n) : n \in 0..MaxLen}
Unsized == {IntVal(42), IntVal(43), None, Bool(FALSE)}

Complains == {Bool(TRUE), Bool(FALSE), Str(""), Str("no"), IntVal(1),
              IntVal(0), None}

InitLongest ==
    /\ pc = "start"
    /\ elm_a \in Sized \cup Unsized
    /\ elm_b \in Sized \cup Unsized
    /\ complain_arg \in Complains
    /\ list_arg = List(<<>>)
    /\ longest = Return(None)
    /\ dirty_url = <<>>
    /\ clean_url = <<>>
    /\ raw_obj = None
    /\ smart_obj = None
    /\ smart_again = None
    /\ FilterIdle
    /\ RecordIdle
    /\ FaviconIdle

Longest ==
    /\ pc = "start"
    /\ longest' = return_longest_element(elm_a, elm_b, complain_arg)
    /\ pc' = "done"
    /\ UNCHANGED <<elm_a, elm_b, complain_arg, list_arg, dirty_url, clean_url,
                   raw_obj, smart_obj, smart_again>>
    /\ UNCHANGED <<filter_vars, record_vars, favicon_vars>>

NextLongest == Longest

SpecLongest == InitLongest /\ [][NextLongest]_vars

ListElements == {Str("adam"), Str("bob"), Str("peter"), Str("david"),
                 List(<<>>)}
ListArgs == {List(xs) : xs \in UNION {[1..n -> ListElements] : n \in 0..MaxElems}}
NotLists == {Str("adam"), IntVal(3), None, Dict(EmptyMap)}

InitLongestList ==
    /\ pc = "start"
    /\ elm_a = None
    /\ elm_b = None
    /\ complain_arg = Bool(TRUE)
    /\ list_arg \in ListArgs \cup NotLists
    /\ longest = Return(None)
    /\ dirty_url = <<>>
    /\ clean_url = <<>>
    /\ raw_obj = None
    /\ smart_obj = None
    /\ smart_again = None
    /\ FilterIdle
    /\ RecordIdle
    /\ FaviconIdle

LongestList ==
    /\ pc = "start"
    /\ longest' = return_longest_list_element(list_arg)
    /\ pc' = "done"
    /\ UNCHANGED <<elm_a, elm_b, complain_arg, list_arg, dirty_url, clean_url,
                   raw_obj, smart_obj, smart_again>>
    /\ UNCHANGED <<filter_vars, record_vars, favicon_vars>>

NextLongestList == LongestList

SpecLongestList == InitLongestList /\ [][NextLongestList]_vars

-----------------------------------------------------------------------------
(* Claims about the longest-element functions *)

HasLength(v) == v.k \in {"str", "unicode", "list"}
LengthOf(v) == IF v.k = "list" THEN Len(v.xs) ELSE Len(v.s)

\* C11: when at least one operand has a length, the operand that has one is
\* returned if the other has none, and otherwise the strictly longer operand,
\* the first operand on a tie, whatever complain is.
C11_LongerOperand ==
    (pc = "done" /\ (HasLength(elm_a) \/ HasLength(elm_b))) =>
        longest = Return(IF ~HasLength(elm_a) THEN elm_b
                         ELSE IF ~HasLength(elm_b) THEN elm_a
                         ELSE IF LengthOf(elm_b) > LengthOf(elm_a) THEN elm_b
                         ELSE elm_a)

C11_Witness ==
    /\ pc = "done"
    /\ elm_a = Str("a")
    /\ elm_b = Str("b")
    /\ complain_arg = Bool(FALSE)
    /\ longest = Return(Str("a"))

\* C12: when neither operand has a length, the call raises only if complain
\* is the boolean True; for every other complain value it raises nothing and
\* returns the complain value itself.
C12_ComplainOnlyIfTrue ==
    (pc = "done" /\ ~HasLength(elm_a) /\ ~HasLength(elm_b)) =>
        IF complain_arg = Bool(TRUE)
        THEN longest.raised # ""
        ELSE longest = Return(complain_arg)

\* C13: for a non-empty list of elements that have a length, the result is
\* the element of maximal length, the earliest one on a tie; an argument that
\* is not a list and an empty list each give an error.
C13_LongestOfList ==
    pc = "done" =>
        IF list_arg.k = "list" /\ Len(list_arg.xs) > 0
        THEN \E i \in 1..Len(list_arg.xs) :
                /\ longest = Return(list_arg.xs[i])
                /\ \A j \in 1..Len(list_arg.xs) :
                        LengthOf(list_arg.xs[j]) <= LengthOf(list_arg.xs[i])
                /\ \A j \in 1..(i - 1) :
                        LengthOf(list_arg.xs[j]) < LengthOf(list_arg.xs[i])
        ELSE longest.raised # ""

C13_Witness ==
    /\ pc = "done"
    /\ list_arg = List(<<Str("bob"), Str("peter"), Str("david")>>)
    /\ longest = Return(Str("peter"))

-----------------------------------------------------------------------------
(* smart_url_protocol_guesser *)

\* A url is a sequence of pieces of text.  Each piece is one of the texts the
\* function looks for, a blank, or the letter x; no text the function looks
\* for straddles two pieces, and a sequence of pieces spells one string only.
Pieces == {" ", "#", "feed://", "http://", "https://", "x"}

MaxPieces == 4   \* the longest url, in pieces

RECURSIVE lstrip(_)
lstrip(text) ==
    IF text # <<>> /\ Head(text) = " " THEN lstrip(Tail(text)) ELSE text

RECURSIVE rstrip(_)
rstrip(text) ==
    IF text # <<>> /\ text[Len(text)] = " "
    THEN rstrip(SubSeq(text, 1, Len(text) - 1))
    ELSE text

\* str.strip()
strip(text) == rstrip(lstrip(text))

\* str.replace(old, new): every occurrence of old.
replace(text, old, new) ==
    [i \in 1..Len(text) |-> IF text[i] = old THEN new ELSE text[i]]

\* text[:len(prefix)] == prefix, for prefix one of the pieces.
startswith(text, prefix) == text # <<>> /\ Head(text) = prefix

smart_url_protocol_guesser(url_) ==
    LET stripped == strip(url_)
        hashed == replace(stripped, "#", "%23")
        unfed == replace(hashed, "feed://", "http://")
    IN  IF ~startswith(unfed, "http://") /\ ~startswith(unfed, "https://")
        THEN <<"http://">> \o unfed
        ELSE unfed

InitGuess ==
    /\ pc = "start"
    /\ dirty_url \in UNION {[1..n -> Pieces] : n \in 0..MaxPieces}
    /\ clean_url = <<>>
    /\ elm_a = None
    /\ elm_b = None
    /\ complain_arg = Bool(TRUE)
    /\ list_arg = List(<<>>)
    /\ longest = Return(None)
    /\ raw_obj = None
    /\ smart_obj = None
    /\ smart_again = None
    /\ FilterIdle
    /\ RecordIdle
    /\ FaviconIdle

Guess ==
    /\ pc = "start"
    /\ clean_url' = smart_url_protocol_guesser(dirty_url)
    /\ pc' = "done"
    /\ UNCHANGED <<elm_a, elm_b, complain_arg, list_arg, longest, dirty_url,
                   raw_obj, smart_obj, smart_again>>
    /\ UNCHANGED <<filter_vars, record_vars, favicon_vars>>

NextGuess == Guess

SpecGuess == InitGuess /\ [][NextGuess]_vars

-----------------------------------------------------------------------------
(* Claims about smart_url_protocol_guesser *)

\* The url with its leading feed:// alone rewritten.
PrefixRewritten(text) ==
    IF text # <<>> /\ Head(text) = "feed://"
    THEN <<"http://">> \o Tail(text)
    ELSE text

\* C14: the result is the input trimmed of surrounding blanks, with every #
\* replaced by %23, with a leading feed:// (and no other feed://) rewritten to
\* http://, and with http:// prepended exactly when the string then begins
\* with neither http:// nor https://.
C14_PrefixOnly ==
    pc = "done" =>
        LET trimmed == strip(dirty_url)
            hashed == [i \in 1..Len(trimmed) |->
                          IF trimmed[i] = "#" THEN "%23" ELSE trimmed[i]]
            rewritten == PrefixRewritten(hashed)
        IN  clean_url =
                IF rewritten # <<>> /\ Head(rewritten) \in {"http://", "https://"}
                THEN rewritten
                ELSE <<"http://">> \o rewritten

-----------------------------------------------------------------------------
(* make_smart_object, applied to a raw object and to its own result *)

MaxDepth == 2      \* how deep mappings and lists nest
MaxListLen == 1    \* the longest list of a raw object

Scalars == {Unicode("C"), IntVal(1)}
ObjectKeys == {"a", "b"}

\* The raw objects that nest mappings and lists to the given depth.
RECURSIVE Objects(_)
Objects(depth) ==
    IF depth = 0 THEN Scalars
    ELSE LET inner == Objects(depth - 1)
         IN  Scalars
               \cup {Dict(m) : m \in UNION {[ks -> inner] : ks \in SUBSET ObjectKeys}}
               \cup {List(xs) : xs \in UNION {[1..n -> inner] : n \in 0..MaxListLen}}

InitNormalize ==
    /\ pc = "start"
    /\ raw_obj \in Objects(MaxDepth)
    /\ smart_obj = None
    /\ smart_again = None
    /\ elm_a = None
    /\ elm_b = None
    /\ complain_arg = Bool(TRUE)
    /\ list_arg = List(<<>>)
    /\ longest = Return(None)
    /\ dirty_url = <<>>
    /\ clean_url = <<>>
    /\ FilterIdle
    /\ RecordIdle
    /\ FaviconIdle

\* smart_obj = make_smart_object(raw_obj); raw_obj keeps the object as it
\* was passed in.
Normalize ==
    /\ pc = "start"
    /\ smart_obj' = make_smart_object(raw_obj)
    /\ pc' = "once"
    /\ UNCHANGED <<elm_a, elm_b, complain_arg, list_arg, longest, dirty_url,
                   clean_url, raw_obj, smart_again>>
    /\ UNCHANGED <<filter_vars, record_vars, favicon_vars>>

\* smart_again = make_smart_object(smart_obj)
NormalizeAgain ==
    /\ pc = "once"
    /\ smart_again' = make_smart_object(smart_obj)
    /\ pc' = "twice"
    /\ UNCHANGED <<elm_a, elm_b, complain_arg, list_arg, longest, dirty_url,
                   clean_url, raw_obj, smart_obj>>
    /\ UNCHANGED <<filter_vars, record_vars, favicon_vars>>

NextNormalize == Normalize \/ NormalizeAgain

SpecNormalize == InitNormalize /\ [][NextNormalize]_vars

-----------------------------------------------------------------------------
(* Claims about make_smart_object *)

\* C15: normalizing the result of a normalization gives that result again,
\* for every nested mapping, list and scalar.
C15_Idempotent ==
    pc = "twice" => smart_again = smart_obj

C15_Witness ==
    /\ pc = "twice"
    /\ raw_obj = Dict([a |-> List(<<Unicode("C")>>), b |-> Dict([a |-> IntVal(1)])])
    /\ smart_obj = NewSmart([a |-> List(<<Str("C")>>),
                             b |-> NewSmart([a |-> IntVal(1)])])
    /\ smart_again = smart_obj

-----------------------------------------------------------------------------
(* Claims about update_time read more than once *)

\* C16: on a record without a literal update_time, once update_time has been
\* read every later read of the same record returns the identical string,
\* whatever the jitter drawn and however far the clock has advanced.
C16_StableUpdateTime ==
    [][(ReadUpdateTime /\ ReadUpdateTime') => last'.out = last.out]_vars

-----------------------------------------------------------------------------
(* Claims about update *)

\* C17: update(m) completes and afterwards, for every key k of m, no
\* delegate is registered for k and reading k returns m[k], escaped, whether
\* k had a backing entry, a delegate, both or neither before.
C17_UpdatePostcondition ==
    last.op = "update" =>
        /\ last.out.raised = ""
        /\ \A key \in DOMAIN last.update_dict :
                /\ key \notin DOMAIN special
                /\ __getitem__(self, key, NoEnv)
                        = Return(escape(last.update_dict[key]))

-----------------------------------------------------------------------------
(* A record whose story_content is read *)

\* What a parse result holds under content, description and summary: a str,
\* a unicode, an empty list, a list of mappings with a value.
ContentValues == {Str("ab"), Unicode("abc"), List(<<>>),
                  List(<<Dict([value |-> Unicode("long text")])>>)}
ContentNames == {"content", "description", "summary"}

InitContent ==
    /\ pc = "record"
    /\ feed_dict \in UNION {[names -> ContentValues] : names \in SUBSET ContentNames}
    /\ special = EmptyMap
    /\ update_time = Unset
    /\ update_time_format = DefaultFormat
    /\ fuzz_update_time = 1
    /\ clock = StartClock
    /\ last = NoOp
    /\ FilterIdle
    /\ FaviconIdle
    /\ PureIdle

NextContent ==
    \/ GetItem("story_content")
    \/ \E default \in Defaults : Get("story_content", default)

SpecContent == InitContent /\ [][NextContent]_vars

-----------------------------------------------------------------------------
(* Claims about story_content *)

\* content, description and summary in that order, the empty str standing
\* for the one that is absent.
Candidates ==
    [i \in 1..3 |->
        LET name == <<"content", "description", "summary">>[i]
        IN  IF name \in DOMAIN feed_dict THEN escape(feed_dict[name]) ELSE Str("")]

\* The longest of the three, the earlier one on a tie.
Winner ==
    Candidates[CHOOSE i \in 1..3 :
        /\ \A j \in 1..3 : LengthOf(Candidates[j]) <= LengthOf(Candidates[i])
        /\ \A j \in 1..(i - 1) : LengthOf(Candidates[j]) < LengthOf(Candidates[i])]

\* C18: when each of content, description and summary is absent, a string or
\* a list (possibly empty), reading story_content raises nothing and returns
\* the longest of the three, the earlier one on a tie, or the value of its
\* first element when the longest is a list.
C18_StoryContent ==
    (last.op = "getitem" /\ last.name = "story_content"
        /\ "story_content" \notin DOMAIN special) =>
        /\ last.out.raised = ""
        /\ Winner.k # "list" => last.out.value = Winner
        /\ (Winner.k = "list" /\ Len(Winner.xs) > 0) =>
                last.out.value = escape(Winner.xs[1].m["value"])

====
